---- MODULE Spec2Model ----
(***************************************************************************)
(* Backblaze B2 backup agent for Home Assistant: the backup-agent adapter  *)
(* (two revisions), the remote bucket it talks to, and the listener        *)
(* registry with the config-entry lifecycle hooks that notify it.          *)
(*                                                                         *)
(* Strings (object keys, prefixes, backup ids) are sequences of            *)
(* one-character strings, so that startswith, substring search and         *)
(* pathlib's stem/name are computed and not assumed.                       *)
(***************************************************************************)
EXTENDS Integers, Sequences, FiniteSets, TLC

VARIABLES
    bucket,      \* remote bucket: sequence of file versions, in upload order
    nextId,      \* next native file id the store hands out (also the timestamp)
    agent,       \* the B2BackupAgent instance: revision, prefix, lazy fields
    uploaded,    \* backup ids this agent has uploaded successfully
    last,        \* the last adapter operation: call, outcome, bucket before it
    tasks,       \* the operations in progress, one per calling task: position and partial result
    sdk,         \* what the instance has asked of the SDK so far: operations started, authorize outcome
    integration, \* which integration package is installed
    listeners,   \* hass.data: the listener lists, one per key
    entries,     \* the config entries: state, and whether the update listener is attached
    handles,     \* the registrations made, in order, and whether each one's remove function was called
    invoked,     \* the callbacks the hook or notification that just ran invoked, in order
    hook         \* the hook or notification that just ran, and how it ended

vars == <<bucket, nextId, agent, uploaded, last, tasks, sdk,
          integration, listeners, entries, handles, invoked, hook>>
agentVars == <<bucket, nextId, agent, uploaded, last, tasks, sdk>>
hassVars == <<integration, listeners, entries, handles, invoked, hook>>

----------------------------------------------------------------------------
(* Bounds of the model *)

MaxUploads == 2
MaxListeners == 3
MaxOps == 2

----------------------------------------------------------------------------
(* Strings *)

Alphabet == <<".", "/", "a", "b", "h", "r", "t", "x", "y", "z">>

Ord(c) == CHOOSE i \in 1..Len(Alphabet) : Alphabet[i] = c

\* str.startswith
StartsWith(s, p) == Len(p) <= Len(s) /\ SubSeq(s, 1, Len(p)) = p

\* the `in` operator on str: sub occurs somewhere in s
Contains(s, sub) ==
    \E i \in 0..(Len(s) - Len(sub)) : SubSeq(s, i + 1, i + Len(sub)) = sub

\* str comparison, the order in which the store lists file names
RECURSIVE StrLess(_, _)
StrLess(s, t) ==
    IF t = <<>> THEN FALSE
    ELSE IF s = <<>> THEN TRUE
    ELSE IF Head(s) = Head(t) THEN StrLess(Tail(s), Tail(t))
    ELSE Ord(Head(s)) < Ord(Head(t))

\* index of the last occurrence of character c in s, 0 when there is none
RFind(s, c) ==
    LET hits == { i \in 1..Len(s) : s[i] = c }
    IN IF hits = {} THEN 0 ELSE CHOOSE i \in hits : \A j \in hits : j <= i

RECURSIVE StripSlashes(_)
StripSlashes(s) ==
    IF s # <<>> /\ s[Len(s)] = "/" THEN StripSlashes(SubSeq(s, 1, Len(s) - 1)) ELSE s

\* pathlib.Path(s).name: the last path component
PathName(s) ==
    LET t == StripSlashes(s)
    IN SubSeq(t, RFind(t, "/") + 1, Len(t))

\* pathlib.Path(s).stem: the name without its last suffix
PathStem(s) ==
    LET n == PathName(s)
        i == RFind(n, ".")
    IN IF 1 < i /\ i < Len(n) THEN SubSeq(n, 1, i - 1) ELSE n

\* str.rsplit("/", 1)[-1]
RSplitLast(s) == SubSeq(s, RFind(s, "/") + 1, Len(s))

TarSuffix == <<".", "t", "a", "r">>

\* f"{prefix}/{backup_id}.tar"
Filename(prefix, backup_id) == prefix \o <<"/">> \o backup_id \o TarSuffix

----------------------------------------------------------------------------
(* Inputs *)

\* the host's config entries for the integration
EntryIds == {"e1", "e2"}

\* listener callbacks the host registers; "boom" raises when it is called
Callbacks == {"f", "g", "boom"}

Raises(cb) == cb = "boom"

\* the configured path prefix (CONF_PREFIX)
Prefix == <<"h", "a">>

\* backup ids the host uploads: "x" and "ax" (which contains "x", and whose
\* object sorts before that of "x")
BackupIds == { <<"x">>, <<"a", "x">> }

\* a backup id that is never uploaded and occurs in no key
MissingId == <<"y">>

\* backup streams: sequences of chunks, each chunk a sequence of bytes
Streams == { << <<1>>, <<2>> >>, << <<3>> >> }

Digits == <<"1", "2", "3", "4", "5", "6", "7", "8", "9">>

\* the native file id the store gives the n-th uploaded version
FileId(n) == <<"#", Digits[n]>>

----------------------------------------------------------------------------
(* The remote bucket, as the SDK presents it *)

NoFault == [call |-> "none", exc |-> "none"]

\* one SDK call of an operation may fail: a transport failure (a B2Error), a
\* failure outside the SDK's hierarchy, or the bucket not resolving
Faults ==
    {NoFault}
    \cup [call : {"authorize", "get_bucket", "ls", "put", "get", "delete"},
          exc : {"B2ConnectionError", "OSError"}]
    \cup {[call |-> "get_bucket", exc |-> "NonExistentBucket"]}

\* subclasses of b2sdk's exception.B2Error
IsB2Error(exc) ==
    exc \in {"B2ConnectionError", "NonExistentBucket", "FileNotPresent", "MissingAccountData"}

Names(b) == { b[i].name : i \in 1..Len(b) }

\* the newest version stored under a file name
Latest(b, name) ==
    LET is == { i \in 1..Len(b) : b[i].name = name }
    IN b[CHOOSE i \in is : \A j \in is : b[j].ts <= b[i].ts]

RECURSIVE SortedNames(_)
SortedNames(ns) ==
    IF ns = {} THEN <<>>
    ELSE LET m == CHOOSE n \in ns : \A o \in ns \ {n} : StrLess(n, o)
         IN <<m>> \o SortedNames(ns \ {m})

\* Bucket.ls(): the latest version of every file, by file name
Ls(b) ==
    LET ns == SortedNames(Names(b))
    IN [i \in 1..Len(ns) |-> Latest(b, ns[i])]

\* Bucket.upload_bytes(data, file_name): a new version of that file
UploadBytes(b, n, data, name) ==
    Append(b, [id |-> FileId(n), name |-> name, data |-> data, ts |-> n])

HasVersion(b, id) == \E i \in 1..Len(b) : b[i].id = id

VersionById(b, id) == b[CHOOSE i \in 1..Len(b) : b[i].id = id]

RECURSIVE Without(_, _)
Without(b, id) ==
    IF b = <<>> THEN <<>>
    ELSE IF Head(b).id = id THEN Tail(b)
    ELSE <<Head(b)>> \o Without(Tail(b), id)

\* Bucket.delete_file_version(file_id, file_name): removes that one version
DeleteFileVersion(b, id) == Without(b, id)

\* the stream read once and not drained: the buffer holds the first chunk only
Concat_first_chunk(chunks) == IF chunks = <<>> THEN <<>> ELSE Head(chunks)

RECURSIVE Concat(_)
\* BytesIO: buf.write(chunk) for every chunk, then buf.getvalue()
Concat(chunks) ==
    IF chunks = <<>> THEN <<>> ELSE Head(chunks) \o Concat(Tail(chunks))

----------------------------------------------------------------------------
(* B2BackupAgent, custom_components/backup_b2/backup.py *)

\* how one operation ends: status is "ok", "BackupNotFound" or the name of the
\* exception that reached the caller; fired tells that the injected fault did it
Out(status, records, bytes, b, a, fired) ==
    [status |-> status, records |-> records, bytes |-> bytes,
     bucket |-> b, agent |-> a, fired |-> fired]

\* `except b2e.B2Error as err: raise BackupNotFound from err`
MapB2Error(exc) == IF IsB2Error(exc) THEN "BackupNotFound" ELSE exc

\* the flag left as it was after authorize_account has returned
mark_authorized_forgotten(a) == a

\* `self._authorized = True`
mark_authorized(a) == [a EXCEPT !.authorized = TRUE]

ensure_authorized(a, f) ==
    IF a.authorized THEN [exc |-> "none", agent |-> a]
    ELSE IF f.call = "authorize" THEN [exc |-> f.exc, agent |-> a]
    ELSE [exc |-> "none", agent |-> mark_authorized([a EXCEPT !.api = TRUE])]

get_bucket(a, f) ==
    IF a.bucket_obj THEN [exc |-> "none", agent |-> a]
    ELSE IF f.call = "get_bucket" THEN [exc |-> f.exc, agent |-> a]
    ELSE [exc |-> "none", agent |-> [a EXCEPT !.bucket_obj = TRUE]]

\* the prefix test left out of the loop: every object of the bucket passes
HasPrefix_unfiltered(name, prefix) == TRUE

\* file_version.file_name.startswith(self._prefix)
HasPrefix(name, prefix) == StartsWith(name, prefix)

\* ... and backup_id in file_version.file_name
MatchesBackup(name, prefix, backup_id) ==
    HasPrefix(name, prefix) /\ Contains(name, backup_id)

AgentBackupOf(fv) ==
    [backup_id |-> PathStem(fv.name), name |-> PathName(fv.name),
     created |-> fv.ts, size |-> Len(fv.data)]

RECURSIVE ListRecords(_, _)
\* the loop of _list_backups over ls()
ListRecords(fvs, prefix) ==
    IF fvs = <<>> THEN <<>>
    ELSE IF HasPrefix(Head(fvs).name, prefix)
         THEN <<AgentBackupOf(Head(fvs))>> \o ListRecords(Tail(fvs), prefix)
         ELSE ListRecords(Tail(fvs), prefix)

RECURSIVE FirstMatch(_, _, _)
\* the loop of _download and _delete over ls(): the first matching version,
\* as a sequence of zero or one element
FirstMatch(fvs, prefix, backup_id) ==
    IF fvs = <<>> THEN <<>>
    ELSE IF MatchesBackup(Head(fvs).name, prefix, backup_id) THEN <<Head(fvs)>>
    ELSE FirstMatch(Tail(fvs), prefix, backup_id)

async_upload_backup(a, b, n, backup_id, stream, f) ==
    LET auth == ensure_authorized(a, f)
        buf == Concat(stream)
        filename == Filename(a.prefix, backup_id)
        h == get_bucket(auth.agent, f)
    IN IF auth.exc # "none" THEN Out(auth.exc, <<>>, <<>>, b, auth.agent, TRUE)
       ELSE IF h.exc # "none" THEN Out(h.exc, <<>>, <<>>, b, h.agent, TRUE)
       ELSE IF f.call = "put" THEN Out(f.exc, <<>>, <<>>, b, h.agent, TRUE)
       ELSE Out("ok", <<>>, <<>>, UploadBytes(b, n, buf, filename), h.agent, FALSE)

async_list_backups(a, b, f) ==
    LET auth == ensure_authorized(a, f)
        h == get_bucket(auth.agent, f)
    IN IF auth.exc # "none" THEN Out(auth.exc, <<>>, <<>>, b, auth.agent, TRUE)
       ELSE IF h.exc # "none" THEN Out(h.exc, <<>>, <<>>, b, h.agent, TRUE)
       ELSE IF f.call = "ls" THEN Out(f.exc, <<>>, <<>>, b, h.agent, TRUE)
       ELSE Out("ok", ListRecords(Ls(b), a.prefix), <<>>, b, h.agent, FALSE)

async_download_backup(a, b, backup_id, f) ==
    LET auth == ensure_authorized(a, f)
        h == get_bucket(auth.agent, f)
        m == FirstMatch(Ls(b), a.prefix, backup_id)
    IN IF auth.exc # "none" THEN Out(auth.exc, <<>>, <<>>, b, auth.agent, TRUE)
       ELSE IF h.exc # "none" THEN Out(MapB2Error(h.exc), <<>>, <<>>, b, h.agent, TRUE)
       ELSE IF f.call = "ls" THEN Out(MapB2Error(f.exc), <<>>, <<>>, b, h.agent, TRUE)
       ELSE IF m = <<>> THEN Out("BackupNotFound", <<>>, <<>>, b, h.agent, FALSE)
       ELSE IF f.call = "get" THEN Out(MapB2Error(f.exc), <<>>, <<>>, b, h.agent, TRUE)
       ELSE Out("ok", <<>>, VersionById(b, m[1].id).data, b, h.agent, FALSE)

async_delete_backup(a, b, backup_id, f) ==
    LET auth == ensure_authorized(a, f)
        h == get_bucket(auth.agent, f)
        m == FirstMatch(Ls(b), a.prefix, backup_id)
    IN IF auth.exc # "none" THEN Out(auth.exc, <<>>, <<>>, b, auth.agent, TRUE)
       ELSE IF h.exc # "none" THEN Out(MapB2Error(h.exc), <<>>, <<>>, b, h.agent, TRUE)
       ELSE IF f.call = "ls" THEN Out(MapB2Error(f.exc), <<>>, <<>>, b, h.agent, TRUE)
       ELSE IF m = <<>> THEN Out("BackupNotFound", <<>>, <<>>, b, h.agent, FALSE)
       ELSE IF f.call = "delete" THEN Out(MapB2Error(f.exc), <<>>, <<>>, b, h.agent, TRUE)
       ELSE Out("ok", <<>>, <<>>, DeleteFileVersion(b, m[1].id), h.agent, FALSE)

----------------------------------------------------------------------------
(* B2BackupAgent, backup.py at the repository root (the earlier revision) *)

\* get_bucket_by_name on a B2Api that holds no account data raises
\* MissingAccountData, a B2Error
bucket_handle(a, f) ==
    IF a.bucket_obj THEN [exc |-> "none", agent |-> a]
    ELSE IF ~a.api THEN [exc |-> "MissingAccountData", agent |-> a]
    ELSE IF f.call = "get_bucket" THEN [exc |-> f.exc, agent |-> a]
    ELSE [exc |-> "none", agent |-> [a EXCEPT !.bucket_obj = TRUE]]

legacy_AgentBackupOf(fv) ==
    [backup_id |-> fv.id, name |-> RSplitLast(fv.name),
     created |-> fv.ts, size |-> Len(fv.data)]

RECURSIVE legacy_ListRecords(_, _)
legacy_ListRecords(fvs, prefix) ==
    IF fvs = <<>> THEN <<>>
    ELSE IF ~StartsWith(Head(fvs).name, prefix) THEN legacy_ListRecords(Tail(fvs), prefix)
    ELSE <<legacy_AgentBackupOf(Head(fvs))>> \o legacy_ListRecords(Tail(fvs), prefix)

legacy_async_upload_backup(a, b, n, backup_id, stream, f) ==
    LET buf == Concat(stream)
        filename == Filename(a.prefix, backup_id)
        h == bucket_handle(a, f)
    IN IF h.exc # "none" THEN Out(h.exc, <<>>, <<>>, b, h.agent, TRUE)
       ELSE IF f.call = "put" THEN Out(f.exc, <<>>, <<>>, b, h.agent, TRUE)
       ELSE Out("ok", <<>>, <<>>, UploadBytes(b, n, buf, filename), h.agent, FALSE)

legacy_async_list_backups(a, b, f) ==
    LET h == bucket_handle(a, f)
    IN IF h.exc # "none" THEN Out(h.exc, <<>>, <<>>, b, h.agent, TRUE)
       ELSE IF f.call = "ls" THEN Out(f.exc, <<>>, <<>>, b, h.agent, TRUE)
       ELSE Out("ok", legacy_ListRecords(Ls(b), a.prefix), <<>>, b, h.agent, FALSE)

legacy_async_download_backup(a, b, backup_id, f) ==
    LET h == bucket_handle(a, f)
    IN IF h.exc # "none" THEN Out(h.exc, <<>>, <<>>, b, h.agent, TRUE)
       ELSE IF f.call = "get" THEN Out(f.exc, <<>>, <<>>, b, h.agent, TRUE)
       ELSE IF ~HasVersion(b, backup_id) THEN Out("FileNotPresent", <<>>, <<>>, b, h.agent, FALSE)
       ELSE Out("ok", <<>>, VersionById(b, backup_id).data, b, h.agent, FALSE)

legacy_async_delete_backup(a, b, backup_id, f) ==
    LET h == bucket_handle(a, f)
    IN IF h.exc # "none" THEN Out(MapB2Error(h.exc), <<>>, <<>>, b, h.agent, TRUE)
       ELSE IF f.call = "delete" THEN Out(MapB2Error(f.exc), <<>>, <<>>, b, h.agent, TRUE)
       ELSE IF ~HasVersion(b, backup_id)
            THEN Out(MapB2Error("FileNotPresent"), <<>>, <<>>, b, h.agent, FALSE)
       ELSE Out("ok", <<>>, <<>>, DeleteFileVersion(b, backup_id), h.agent, FALSE)

----------------------------------------------------------------------------
(* The adapter's operations as the host calls them *)

ForeignVersion(name, data) ==
    [id |-> <<"#", name[1]>>, name |-> name, data |-> data, ts |-> 0]

\* unrelated content the bucket holds before the agent is used: "z/x.tar",
\* outside the prefix, with or without "hab/x.tar", a sibling folder whose name
\* merely begins with the prefix string
InitBuckets ==
    LET z == ForeignVersion(<<"z", "/", "x">> \o TarSuffix, <<9>>)
        h == ForeignVersion(<<"h", "a", "b", "/", "x">> \o TarSuffix, <<8, 9>>)
    IN { <<z>>, <<h, z>> }

\* __init__ of either revision: the earlier one authorizes while constructing
\* (here with hass not running, so that authorize_account has returned); api
\* tells whether the B2Api holds account data, job is the state of an
\* authorize job handed to the executor
NewAgent(rev) ==
    [rev |-> rev, prefix |-> Prefix, authorized |-> (rev = "A"), bucket_obj |-> FALSE,
     api |-> (rev = "A"), job |-> "none"]

\* __init__ of the earlier revision with hass running: authorize_account is
\* handed to the executor and the constructor returns without waiting for it
NewAgentRunning ==
    [NewAgent("A") EXCEPT !.authorized = FALSE, !.api = FALSE, !.job = "pending"]

\* what a handler that is no config flow leaves as the form input
NoInput == [bucket |-> "none", prefix |-> <<>>, verdict |-> "none"]

\* no hook has run since the listener lists last changed
NoHook ==
    [name |-> "none", entry |-> "none", raised |-> FALSE, event |-> FALSE,
     result |-> "none", input |-> NoInput]

\* the slot of a config entry that has not been created
NoEntry == [state |-> "absent", update_listener |-> FALSE, data |-> NoInput]

NoOp(b) ==
    [op |-> "none", arg |-> <<>>, stream |-> <<>>, status |-> "none", records |-> <<>>,
     bytes |-> <<>>, fault |-> NoFault, before |-> b]

\* ids a caller can pass to download and delete: backup ids, and the native
\* ids of the versions stored
ArgIds(b) == BackupIds \cup {MissingId} \cup { b[i].id : i \in 1..Len(b) }

\* the faults that can hit an operation making these SDK calls
FaultsAt(calls) == { f \in Faults : f = NoFault \/ f.call \in calls }

Finish(op, arg, stream, f, out) ==
    /\ f = NoFault \/ out.fired
    /\ UNCHANGED <<tasks, sdk>>
    /\ bucket' = out.bucket
    /\ agent' = out.agent
    /\ last' = [op |-> op, arg |-> arg, stream |-> stream, status |-> out.status,
                records |-> out.records, bytes |-> out.bytes,
                fault |-> f, before |-> bucket]

Upload(backup_id, stream, f) ==
    LET out == IF agent.rev = "B"
               THEN async_upload_backup(agent, bucket, nextId, backup_id, stream, f)
               ELSE legacy_async_upload_backup(agent, bucket, nextId, backup_id, stream, f)
    IN /\ nextId <= MaxUploads
       /\ Finish("upload", backup_id, stream, f, out)
       /\ nextId' = IF out.status = "ok" THEN nextId + 1 ELSE nextId
       /\ uploaded' = IF out.status = "ok" THEN uploaded \cup {backup_id} ELSE uploaded
       /\ UNCHANGED hassVars

List(f) ==
    LET out == IF agent.rev = "B"
               THEN async_list_backups(agent, bucket, f)
               ELSE legacy_async_list_backups(agent, bucket, f)
    IN /\ Finish("list", <<>>, <<>>, f, out)
       /\ UNCHANGED <<nextId, uploaded>>
       /\ UNCHANGED hassVars

Download(backup_id, f) ==
    LET out == IF agent.rev = "B"
               THEN async_download_backup(agent, bucket, backup_id, f)
               ELSE legacy_async_download_backup(agent, bucket, backup_id, f)
    IN /\ Finish("download", backup_id, <<>>, f, out)
       /\ UNCHANGED <<nextId, uploaded>>
       /\ UNCHANGED hassVars

Delete(backup_id, f) ==
    LET out == IF agent.rev = "B"
               THEN async_delete_backup(agent, bucket, backup_id, f)
               ELSE legacy_async_delete_backup(agent, bucket, backup_id, f)
    IN /\ Finish("delete", backup_id, <<>>, f, out)
       /\ UNCHANGED <<nextId, uploaded>>
       /\ UNCHANGED hassVars

\* the tasks of the host that call into one adapter instance
TaskIds == {"t1", "t2"}

\* a backup stream: its chunks, and where it fails (-1: nowhere, 0: open_stream
\* raises, k: the read of chunk k raises)
NoStream == [chunks |-> <<>>, fail_at |-> -1]

\* a task that is in no operation
NoTask ==
    [op |-> "none", arg |-> <<>>, stream |-> NoStream, pc |-> "idle", buf |-> <<>>,
     found |-> <<>>, status |-> "none", records |-> <<>>, bytes |-> <<>>,
     fault |-> NoFault, calls |-> <<>>]

\* one call into the SDK: which, the thread it runs on, and whether an
\* authorize call of this instance had returned successfully before it
Call(c, thread, after_auth) == [call |-> c, thread |-> thread, after_auth |-> after_auth]

\* the SDK's side of a constructed instance: the earlier revision with hass
\* not running has called authorize_account in __init__, on the caller's
\* thread, which is the event loop's
Constructed(a) ==
    [started |-> 0, authOk |-> a.api, overlapped |-> FALSE,
     ctor |-> IF a.rev = "A" /\ a.job = "none"
              THEN <<Call("authorize", "loop", FALSE)>> ELSE <<>>]

InitAgent ==
    /\ bucket \in InitBuckets
    /\ nextId = 1
    /\ agent \in { NewAgent(rev) : rev \in {"A", "B"} }
    /\ uploaded = {}
    /\ last = NoOp(bucket)
    /\ tasks = [t \in TaskIds |-> NoTask]
    /\ sdk = Constructed(agent)

InitHass ==
    /\ integration \in {"backup_b2", "hacs-b2-backup"}
    /\ listeners = [init |-> <<>>, platform |-> <<>>, legacy |-> <<>>]
    /\ entries = [e \in EntryIds |-> NoEntry]
    /\ handles = <<>>
    /\ invoked = <<>>
    /\ hook = NoHook

NextAgent ==
    \/ \E id \in BackupIds, st \in Streams :
          \E f \in FaultsAt({"authorize", "get_bucket", "put"}) : Upload(id, st, f)
    \/ \E f \in FaultsAt({"authorize", "get_bucket", "ls"}) : List(f)
    \/ \E id \in ArgIds(bucket) :
          \E f \in FaultsAt({"authorize", "get_bucket", "ls", "get"}) : Download(id, f)
    \/ \E id \in ArgIds(bucket) :
          \E f \in FaultsAt({"authorize", "get_bucket", "ls", "delete"}) : Delete(id, f)

\* the adapter in use, while the host's lifecycle side stays as installed
AgentStart == InitAgent /\ InitHass /\ integration = "backup_b2"

SpecAgent == AgentStart /\ [][NextAgent]_vars

----------------------------------------------------------------------------
(* The adapter's operations step by step: what runs on the event loop, what
   runs on an executor thread, and where another task can run in between *)

\* ha/x.tar as an earlier instance left it: uploaded twice, so two versions
EarlierVersion(k, data) ==
    [id |-> <<"#", Alphabet[k]>>, name |-> Filename(Prefix, <<"x">>), data |-> data, ts |-> 0 - k]

\* what the bucket holds when the instance is constructed
TaskBuckets ==
    LET z == ForeignVersion(<<"z", "/", "x">> \o TarSuffix, <<9>>)
    IN { <<z>>, <<z, EarlierVersion(4, <<5>>), EarlierVersion(3, <<6>>)>> }

\* the streams handed to upload: one that reads to its end, one whose
\* open_stream raises, one that raises at its second chunk
TaskStreams == { [chunks |-> << <<1>>, <<2>> >>, fail_at |-> k] : k \in {-1, 0, 2} }

\* ids handed to download and delete: backup id "x", and the native id of
\* the newest version stored
TaskArgs(b) == { <<"x">> } \cup (IF b = <<>> THEN {} ELSE { b[Len(b)].id })

\* the stream swallowing its failure: what was read so far counts as all of it
read_stream_partial(st) ==
    [exc |-> "none",
     buf |-> Concat(SubSeq(st.chunks, 1, IF st.fail_at = -1 THEN Len(st.chunks)
                                         ELSE IF st.fail_at = 0 THEN 0
                                         ELSE st.fail_at - 1))]

\* `stream = await open_stream()` and `async for chunk in stream:
\* buf.write(chunk)`: an exception of either leaves the coroutine
read_stream(st) ==
    IF st.fail_at = -1 THEN [exc |-> "none", buf |-> Concat(st.chunks)]
    ELSE [exc |-> "StreamError", buf |-> <<>>]

\* the blocking function of this operation catches B2Error and raises
\* BackupNotFound: _download and _delete of backup_b2, _delete of the earlier
\* revision
Wraps(rev, op) ==
    \/ rev = "B" /\ op \in {"download", "delete"}
    \/ rev = "A" /\ op = "delete"

\* the operation ends: status is what the awaiting caller gets
Ended(task, status) == [task EXCEPT !.pc = "done", !.status = status]

\* the operation ends with exception exc raised in its blocking function
Raised(task, exc) ==
    Ended(task, IF Wraps(agent.rev, task.op) THEN MapB2Error(exc) ELSE exc)

Logged(task, c) ==
    [task EXCEPT !.calls = Append(@, Call(c, "worker", sdk.authOk))]

\* uploads that have started and not ended
UploadsInProgress ==
    Cardinality({ t \in TaskIds : tasks[t].op = "upload" /\ tasks[t].pc # "done" })

\* a task calls an operation: the coroutine runs on the event loop up to its
\* first suspension. backup_b2 tests self._authorized and, finding it unset,
\* hands authorize_account to the executor; the earlier revision has no such
\* step. upload goes on to the stream, the others to their blocking function
Start(t, op, arg, st) ==
    LET needs == agent.rev = "B" /\ ~agent.authorized
    IN /\ tasks[t].pc \in {"idle", "done"}
       /\ sdk.started < MaxOps
       /\ op = "upload" => nextId + UploadsInProgress <= MaxUploads
       /\ tasks' = [tasks EXCEPT ![t] =
              [NoTask EXCEPT !.op = op, !.arg = arg, !.stream = st,
                             !.pc = IF needs THEN "authorize"
                                    ELSE IF op = "upload" THEN "drain" ELSE "job"]]
       /\ sdk' = [sdk EXCEPT
              !.started = @ + 1,
              !.overlapped = @ \/ (needs /\ \E u \in TaskIds \ {t} :
                                     tasks[u].pc \in {"authorize", "auth_return"})]
       /\ UNCHANGED <<bucket, nextId, agent, uploaded, last>>
       /\ UNCHANGED hassVars

\* api.authorize_account of _ensure_authorized, on an executor thread
AuthorizeCall(t, exc) ==
    LET task == Logged(tasks[t], "authorize")
    IN /\ tasks[t].pc = "authorize"
       /\ IF exc = "none"
          THEN /\ tasks' = [tasks EXCEPT ![t] = [task EXCEPT !.pc = "auth_return"]]
               /\ agent' = [agent EXCEPT !.api = TRUE]
               /\ sdk' = [sdk EXCEPT !.authOk = TRUE]
          ELSE /\ tasks' = [tasks EXCEPT ![t] =
                      Ended([task EXCEPT !.fault = [call |-> "authorize", exc |-> exc]], exc)]
               /\ UNCHANGED <<agent, sdk>>
       /\ UNCHANGED <<bucket, nextId, uploaded, last>>
       /\ UNCHANGED hassVars

\* _ensure_authorized resumes on the event loop and sets the flag; the
\* operation goes on to its next suspension
AuthorizeReturn(t) ==
    /\ tasks[t].pc = "auth_return"
    /\ agent' = mark_authorized(agent)
    /\ tasks' = [tasks EXCEPT ![t].pc = IF tasks[t].op = "upload" THEN "drain" ELSE "job"]
    /\ UNCHANGED <<bucket, nextId, uploaded, last, sdk>>
    /\ UNCHANGED hassVars

\* upload opens the stream and reads it into the buffer
Drain(t) ==
    LET r == read_stream(tasks[t].stream)
    IN /\ tasks[t].pc = "drain"
       /\ tasks' = [tasks EXCEPT ![t] =
              IF r.exc # "none"
              THEN Ended([@ EXCEPT !.fault = [call |-> "stream", exc |-> r.exc]], r.exc)
              ELSE [@ EXCEPT !.buf = r.buf, !.pc = "job"]]
       /\ UNCHANGED <<bucket, nextId, agent, uploaded, last, sdk>>
       /\ UNCHANGED hassVars

\* the blocking function starts on an executor thread:
\* `if self._bucket_obj is None` of _get_bucket / _bucket_handle
CheckBucket(t) ==
    /\ tasks[t].pc = "job"
    /\ tasks' = [tasks EXCEPT ![t].pc = IF agent.bucket_obj THEN "data" ELSE "resolve"]
    /\ UNCHANGED <<bucket, nextId, agent, uploaded, last, sdk>>
    /\ UNCHANGED hassVars

\* `self._bucket_obj = self._api.get_bucket_by_name(...)`
Resolve(t) ==
    LET task == Logged(tasks[t], "get_bucket")
    IN /\ tasks[t].pc = "resolve"
       /\ IF agent.api
          THEN /\ tasks' = [tasks EXCEPT ![t] = [task EXCEPT !.pc = "data"]]
               /\ agent' = [agent EXCEPT !.bucket_obj = TRUE]
          ELSE /\ tasks' = [tasks EXCEPT ![t] = Raised(task, "MissingAccountData")]
               /\ UNCHANGED agent
       /\ UNCHANGED <<bucket, nextId, uploaded, last, sdk>>
       /\ UNCHANGED hassVars

\* upload_bytes(buf.getvalue(), filename)
PutCall(t, exc) ==
    LET task == Logged(tasks[t], "put")
    IN /\ tasks[t].pc = "data" /\ tasks[t].op = "upload"
       /\ IF exc = "none"
          THEN /\ bucket' = UploadBytes(bucket, nextId, task.buf,
                                        Filename(agent.prefix, task.arg))
               /\ nextId' = nextId + 1
               /\ uploaded' = uploaded \cup {task.arg}
               /\ tasks' = [tasks EXCEPT ![t] = Ended(task, "ok")]
          ELSE /\ tasks' = [tasks EXCEPT ![t] =
                      Ended([task EXCEPT !.fault = [call |-> "put", exc |-> exc]], exc)]
               /\ UNCHANGED <<bucket, nextId, uploaded>>
       /\ UNCHANGED <<agent, last, sdk>>
       /\ UNCHANGED hassVars

\* ls() of _list_backups, _download and _delete of backup_b2 and of _list of
\* the earlier revision: list builds its records, download and delete look
\* for the first match and raise BackupNotFound when there is none
LsCall(t) ==
    LET task == Logged(tasks[t], "ls")
        m == FirstMatch(Ls(bucket), agent.prefix, task.arg)
    IN /\ tasks[t].pc = "data"
       /\ tasks[t].op = "list" \/ (agent.rev = "B" /\ tasks[t].op \in {"download", "delete"})
       /\ tasks' = [tasks EXCEPT ![t] =
              IF task.op = "list"
              THEN Ended([task EXCEPT !.records =
                              IF agent.rev = "B" THEN ListRecords(Ls(bucket), agent.prefix)
                              ELSE legacy_ListRecords(Ls(bucket), agent.prefix)], "ok")
              ELSE IF m = <<>> THEN Ended(task, "BackupNotFound")
              ELSE [task EXCEPT !.found = m[1].id, !.pc = "by_id"]]
       /\ UNCHANGED <<bucket, nextId, agent, uploaded, last, sdk>>
       /\ UNCHANGED hassVars

\* download_file_by_id / delete_file_version: with the id ls() gave in
\* backup_b2, with the caller's backup_id in the earlier revision
ByIdCall(t) ==
    LET id == IF agent.rev = "B" THEN tasks[t].found ELSE tasks[t].arg
        task == Logged(tasks[t], IF tasks[t].op = "download" THEN "get" ELSE "delete")
    IN /\ tasks[t].op \in {"download", "delete"}
       /\ tasks[t].pc = IF agent.rev = "B" THEN "by_id" ELSE "data"
       /\ IF ~HasVersion(bucket, id)
          THEN /\ tasks' = [tasks EXCEPT ![t] = Raised(task, "FileNotPresent")]
               /\ UNCHANGED bucket
          ELSE IF task.op = "download"
          THEN /\ tasks' = [tasks EXCEPT ![t] =
                      Ended([task EXCEPT !.bytes = VersionById(bucket, id).data], "ok")]
               /\ UNCHANGED bucket
          ELSE /\ tasks' = [tasks EXCEPT ![t] = Ended(task, "ok")]
               /\ bucket' = DeleteFileVersion(bucket, id)
       /\ UNCHANGED <<nextId, agent, uploaded, last, sdk>>
       /\ UNCHANGED hassVars

\* the authorize job the earlier revision's constructor handed to the
\* executor runs; nobody awaits it, so a failure reaches no one
AuthorizeJob(exc) ==
    /\ agent.job = "pending"
    /\ agent' = IF exc = "none" THEN [agent EXCEPT !.api = TRUE, !.job = "done"]
                ELSE [agent EXCEPT !.job = "failed"]
    /\ sdk' = [sdk EXCEPT !.ctor = Append(@, Call("authorize", "worker", sdk.authOk)),
                          !.authOk = @ \/ exc = "none"]
    /\ UNCHANGED <<bucket, nextId, uploaded, last, tasks>>
    /\ UNCHANGED hassVars

NextTasks ==
    \/ \E t \in TaskIds, st \in TaskStreams : Start(t, "upload", <<"x">>, st)
    \/ \E t \in TaskIds : Start(t, "list", <<>>, NoStream)
    \/ \E t \in TaskIds, op \in {"download", "delete"}, id \in TaskArgs(bucket) :
          Start(t, op, id, NoStream)
    \/ \E t \in TaskIds, exc \in {"none", "B2ConnectionError"} : AuthorizeCall(t, exc)
    \/ \E t \in TaskIds : AuthorizeReturn(t)
    \/ \E t \in TaskIds : Drain(t)
    \/ \E t \in TaskIds : CheckBucket(t)
    \/ \E t \in TaskIds : Resolve(t)
    \/ \E t \in TaskIds, exc \in {"none", "B2ConnectionError"} : PutCall(t, exc)
    \/ \E t \in TaskIds : LsCall(t)
    \/ \E t \in TaskIds : ByIdCall(t)
    \/ \E exc \in {"none", "B2ConnectionError"} : AuthorizeJob(exc)

\* one instance of either revision, just constructed, and the tasks that will
\* call it
TasksStart ==
    /\ bucket \in TaskBuckets
    /\ nextId = 1
    /\ agent \in {NewAgent("A"), NewAgent("B"), NewAgentRunning}
    /\ uploaded = {}
    /\ last = NoOp(bucket)
    /\ tasks = [t \in TaskIds |-> NoTask]
    /\ sdk = Constructed(agent)
    /\ InitHass
    /\ integration = "backup_b2"

SpecTasks == TasksStart /\ [][NextTasks]_vars

----------------------------------------------------------------------------
(* Listener registry and config-entry lifecycle *)

\* the hass.data key a module's async_register_backup_agents_listener uses:
\* "init" is backup_b2/__init__.py, "platform" is backup_b2/backup.py and
\* "legacy" is backup.py at the repository root
RegistriesOf(pkg) ==
    IF pkg = "backup_b2" THEN {"init", "platform"} ELSE {"legacy"}

Registered == Len(listeners.init) + Len(listeners.platform) + Len(listeners.legacy)

\* list.remove(x): drops the first occurrence of x
RECURSIVE ListRemove(_, _)
ListRemove(q, x) ==
    IF q = <<>> THEN <<>>
    ELSE IF Head(q) = x THEN Tail(q)
    ELSE <<Head(q)>> \o ListRemove(Tail(q), x)

\* listeners that call back into the registry while they are being notified:
\* "drop" calls the remove function of its own registration, "add" registers
\* the listener "g" with the module that is notifying
Reentrant == {"drop", "add"}

\* what calling listener cb of registry reg does to the list and to the
\* registrations
Invoke(reg, cb, q, hs) ==
    IF cb = "drop"
    THEN LET own == { i \in 1..Len(hs) : hs[i].reg = reg /\ hs[i].cb = cb /\ ~hs[i].called }
             k == CHOOSE i \in own : \A j \in own : i <= j
         IN [list |-> ListRemove(q, cb),
             handles |-> IF own = {} THEN hs ELSE [hs EXCEPT ![k].called = TRUE]]
    ELSE IF cb = "add"
    THEN [list |-> Append(q, "g"),
          handles |-> Append(hs, [reg |-> reg, cb |-> "g", called |-> FALSE])]
    ELSE [list |-> q, handles |-> hs]

RECURSIVE ForEach(_, _, _, _, _, _)
\* `for listener in <the list in hass.data>: listener()`: the loop reads the
\* live list by position, so what a listener does to the list moves what the
\* next position holds. Not isolated, the first exception ends the loop;
\* isolated, the call sits in try/except Exception
ForEach(reg, q, hs, i, inv, isolated) ==
    IF i > Len(q)
    THEN [invoked |-> inv, raised |-> FALSE, list |-> q, handles |-> hs]
    ELSE LET r == Invoke(reg, q[i], q, hs)
         IN IF Raises(q[i]) /\ ~isolated
            THEN [invoked |-> Append(inv, q[i]), raised |-> TRUE,
                  list |-> r.list, handles |-> r.handles]
            ELSE ForEach(reg, r.list, r.handles, i + 1, Append(inv, q[i]), isolated)

\* `for cb in hass.data.get(_DATA_LISTENERS, []): cb()` of async_setup_entry:
\* the first callback that raises ends the loop and the exception leaves _notify
notify(q, hs) == ForEach("init", q, hs, 1, <<>>, FALSE)

\* notify_backup_listeners: every callback is called inside try/except Exception
notify_backup_listeners(q, hs) == ForEach("platform", q, hs, 1, <<>>, TRUE)

\* async_register_backup_agents_listener of the module that owns registry reg:
\* the callback is appended and a remove function closing over it is returned
Register(reg, cb) ==
    /\ reg \in RegistriesOf(integration)
    /\ Len(handles) < MaxListeners
    /\ listeners' = [listeners EXCEPT ![reg] = Append(@, cb)]
    /\ handles' = Append(handles, [reg |-> reg, cb |-> cb, called |-> FALSE])
    /\ invoked' = <<>>
    /\ hook' = NoHook
    /\ UNCHANGED <<integration, entries>>
    /\ UNCHANGED agentVars

\* the remove function the i-th registration returned, called now (a first
\* time or again): list.remove(listener) on the list of its module. With the
\* callback absent, list.remove raises ValueError: _remove of __init__.py and
\* of the legacy module let it out, remove_listener of backup.py logs it
Unregister(i) ==
    LET h == handles[i]
        absent == \A k \in 1..Len(listeners[h.reg]) : listeners[h.reg][k] # h.cb
    IN /\ listeners' = [listeners EXCEPT ![h.reg] = ListRemove(@, h.cb)]
       /\ handles' = [handles EXCEPT ![i].called = TRUE]
       /\ invoked' = <<>>
       /\ hook' = [name |-> "remove", entry |-> "none",
                   raised |-> absent /\ h.reg # "platform", event |-> FALSE,
                   result |-> "none", input |-> NoInput]
       /\ UNCHANGED <<integration, entries>>
       /\ UNCHANGED agentVars

\* what a lifecycle hook of the installed package does when it tells that the
\* agents changed: backup_b2 runs _notify over its own list, hacs-b2-backup
\* fires the bus event "backup_b2_reload" and calls no listener
Announce ==
    IF integration = "backup_b2" THEN notify(listeners.init, handles)
    ELSE [invoked |-> <<>>, raised |-> FALSE, list |-> listeners.init, handles |-> handles]

\* async_setup_entry, with the host's handling of its result: the update
\* listener is attached, then the listeners are told; an exception leaves the
\* entry in setup_error and the host runs the on_unload callbacks
SetupEntry(e) ==
    LET n == Announce
    IN /\ entries[e].state \in {"not_loaded", "setup_error"}
       /\ entries' = [entries EXCEPT ![e] =
              IF n.raised THEN [@ EXCEPT !.state = "setup_error", !.update_listener = FALSE]
              ELSE [@ EXCEPT !.state = "loaded", !.update_listener = TRUE]]
       /\ Len(n.handles) <= MaxListeners
       /\ listeners' = [listeners EXCEPT !.init = n.list]
       /\ handles' = n.handles
       /\ invoked' = n.invoked
       /\ hook' = [name |-> "setup", entry |-> e, raised |-> n.raised,
                   event |-> integration = "hacs-b2-backup",
                   result |-> "none", input |-> NoInput]
       /\ UNCHANGED integration
       /\ UNCHANGED agentVars

\* the host updates a loaded entry and calls its update listener
UpdateEntry(e) ==
    LET n == Announce
    IN /\ entries[e].state = "loaded"
       /\ entries[e].update_listener
       /\ Len(n.handles) <= MaxListeners
       /\ listeners' = [listeners EXCEPT !.init = n.list]
       /\ handles' = n.handles
       /\ invoked' = n.invoked
       /\ hook' = [name |-> "update", entry |-> e, raised |-> n.raised,
                   event |-> integration = "hacs-b2-backup",
                   result |-> "none", input |-> NoInput]
       /\ UNCHANGED <<integration, entries>>
       /\ UNCHANGED agentVars

\* async_unload_entry returns True and does nothing else; the host then runs
\* the on_unload callbacks, which detach the update listener
UnloadEntry(e) ==
    /\ entries[e].state = "loaded"
    /\ entries' = [entries EXCEPT ![e] = [@ EXCEPT !.state = "not_loaded", !.update_listener = FALSE]]
    /\ invoked' = <<>>
    /\ hook' = [name |-> "unload", entry |-> e, raised |-> FALSE, event |-> FALSE,
                   result |-> "none", input |-> NoInput]
    /\ UNCHANGED <<integration, listeners, handles>>
    /\ UNCHANGED agentVars

\* the form a user submits: bucket, prefix, and what the store will answer to
\* the credentials ("ok", a B2Error, or another exception such as OSError)
UserInputs ==
    { [bucket |-> "b1", prefix |-> Prefix, verdict |-> v] : v \in {"ok", "B2Error", "OSError"} }
      \cup { [bucket |-> "b2", prefix |-> <<"z">>, verdict |-> "ok"] }

\* the entries of the domain that exist
Configured(es) == { e \in EntryIds : es[e].state # "absent" }

\* _abort_if_unique_id_configured after async_set_unique_id(bucket): raises
\* AbortFlow("already_configured") when an entry has this unique id
abort_if_unique_id_configured(es, unique_id) ==
    IF \E e \in Configured(es) : es[e].data.bucket = unique_id
    THEN "AbortFlow" ELSE "none"

\* B2BackupConfigFlow.async_step_user of backup_b2: validation, unique-id
\* check and entry creation sit inside one try; `except ValueError` gives the
\* form error invalid_auth and `except Exception` turns anything else raised
\* in the try, AbortFlow included, into the form error unknown
async_step_user(es, user_input) ==
    LET raised == IF user_input.verdict # "ok" THEN "ValueError"
                  ELSE abort_if_unique_id_configured(es, user_input.bucket)
    IN IF raised = "none" THEN "create_entry"
       ELSE IF raised = "ValueError" THEN "form:invalid_auth"
       ELSE "form:unknown"

\* B2ConfigFlow.async_step_user of hacs-b2-backup: _validate returns False
\* on a B2Error and lets any other exception out; no unique id is set
hacs_async_step_user(es, user_input) ==
    IF user_input.verdict = "ok" THEN "create_entry"
    ELSE IF user_input.verdict = "B2Error" THEN "form:auth"
    ELSE "raised"

\* a user submits the form of the installed package's config flow; a created
\* entry takes the first free slot and waits for the host to set it up
ConfigFlow(user_input) ==
    LET result == IF integration = "backup_b2"
                  THEN async_step_user(entries, user_input)
                  ELSE hacs_async_step_user(entries, user_input)
        free == EntryIds \ Configured(entries)
        e == IF "e1" \in free THEN "e1" ELSE "e2"
    IN /\ result = "create_entry" => free # {}
       /\ entries' = IF result = "create_entry"
                     THEN [entries EXCEPT ![e] =
                              [state |-> "not_loaded", update_listener |-> FALSE,
                               data |-> [user_input EXCEPT !.verdict = "none"]]]
                     ELSE entries
       /\ invoked' = <<>>
       /\ hook' = [name |-> "config_flow",
                   entry |-> IF result = "create_entry" THEN e ELSE "none",
                   raised |-> result = "raised", event |-> FALSE,
                   result |-> result, input |-> user_input]
       /\ UNCHANGED <<integration, listeners, handles>>
       /\ UNCHANGED agentVars

\* async_get_backup_agents of backup_b2 (backup.py and __init__.py alike): one
\* B2BackupAgent(hass, entry.data) for each entry the host reports as loaded
async_get_backup_agents(es) ==
    { [entry |-> e, bucket_name |-> es[e].data.bucket, prefix |-> es[e].data.prefix] :
        e \in { x \in EntryIds : es[x].state = "loaded" } }

\* async_get_backup_agents of hacs-b2-backup: async_entries(DOMAIN), one agent
\* for every entry of the domain whatever its state
hacs_async_get_backup_agents(es) ==
    { [entry |-> e, bucket_name |-> es[e].data.bucket, prefix |-> es[e].data.prefix] :
        e \in Configured(es) }

\* what the host gets when it asks the installed package for its agents
Discover ==
    IF integration = "backup_b2" THEN async_get_backup_agents(entries)
    ELSE hacs_async_get_backup_agents(entries)

\* a direct call of backup.notify_backup_listeners(hass)
NotifyBackupListeners ==
    LET n == notify_backup_listeners(listeners.platform, handles)
    IN /\ integration = "backup_b2"
       /\ Len(n.handles) <= MaxListeners
       /\ listeners' = [listeners EXCEPT !.platform = n.list]
       /\ handles' = n.handles
       /\ invoked' = n.invoked
       /\ hook' = [name |-> "notify_backup_listeners", entry |-> "none",
                   raised |-> n.raised, event |-> FALSE,
                   result |-> "none", input |-> NoInput]
       /\ UNCHANGED <<integration, entries>>
       /\ UNCHANGED agentVars

NextHass ==
    \/ \E reg \in {"init", "platform", "legacy"}, cb \in Callbacks : Register(reg, cb)
    \/ \E i \in 1..Len(handles) : Unregister(i)
    \/ \E e \in EntryIds : SetupEntry(e)
    \/ \E e \in EntryIds : UpdateEntry(e)
    \/ \E e \in EntryIds : UnloadEntry(e)
    \/ NotifyBackupListeners
    \/ \E user_input \in UserInputs : ConfigFlow(user_input)

\* the host's lifecycle side, with one agent constructed and not yet used
HassStart == InitAgent /\ agent.rev = "B" /\ Len(bucket) = 1 /\ InitHass

SpecHass == HassStart /\ [][NextHass]_vars

\* the registries of backup_b2 with listeners that register and unregister
\* while they are being notified
NotifyCallbacks == {"f", "boom"} \cup Reentrant

NextNotify ==
    \/ \E reg \in {"init", "platform"}, cb \in NotifyCallbacks : Register(reg, cb)
    \/ \E i \in 1..Len(handles) : Unregister(i)
    \/ \E e \in EntryIds : SetupEntry(e)
    \/ \E e \in EntryIds : UpdateEntry(e)
    \/ \E e \in EntryIds : UnloadEntry(e)
    \/ NotifyBackupListeners
    \/ ConfigFlow([bucket |-> "b1", prefix |-> Prefix, verdict |-> "ok"])

NotifyStart == HassStart /\ integration = "backup_b2"

SpecNotify == NotifyStart /\ [][NextNotify]_vars

----------------------------------------------------------------------------
(* The whole system: the adapter and the host's lifecycle side by side *)

Init == InitAgent /\ InitHass

Next == NextAgent \/ NextTasks \/ NextHass \/ NextNotify

Spec == Init /\ [][Next]_vars

----------------------------------------------------------------------------
(* Claims about the adapter *)

Range(q) == { q[i] : i \in 1..Len(q) }

\* backup_id names something the store holds: an object of the key scheme, or
\* a version by its native id
Stored(b, backup_id) ==
    \E v \in Range(b) : v.name = Filename(Prefix, backup_id) \/ v.id = backup_id

\* C1 (as claimed): download and delete of a backup id that is not in the
\* store end with BackupNotFound, in either revision, whatever the bucket holds
C1_AbsentIdReportsNotFound ==
    (/\ last.op \in {"download", "delete"}
     /\ last.fault = NoFault
     /\ ~Stored(last.before, last.arg))
    => last.status = "BackupNotFound"

\* C2 (as claimed): a storage failure that is not a not-found or resolution
\* failure reaches the caller unchanged; it is never reported as BackupNotFound
C2_OtherFailuresPropagate ==
    last.fault.exc \in {"B2ConnectionError", "OSError"}
    => last.status = last.fault.exc

\* a list record describes this file version: its timestamp, its size, and
\* as name the part of the key after the last "/"
Describes(r, v) ==
    /\ r.created = v.ts
    /\ r.size = Len(v.data)
    /\ Len(r.name) < Len(v.name)
    /\ SubSeq(v.name, Len(v.name) - Len(r.name) + 1, Len(v.name)) = r.name
    /\ v.name[Len(v.name) - Len(r.name)] = "/"
    /\ \A i \in 1..Len(r.name) : r.name[i] # "/"

\* C3: list() returns records only for objects whose key starts with the
\* configured prefix, one object per record, and the empty list when no key
\* starts with the prefix
C3_ListOnlyUnderPrefix ==
    (last.op = "list" /\ last.status = "ok")
    => LET under == { v \in Range(Ls(last.before)) : StartsWith(v.name, Prefix) }
           n == Len(last.records)
       IN /\ \E g \in [1..n -> under] :
                /\ \A i \in 1..n : Describes(last.records[i], g[i])
                /\ \A i, j \in 1..n : g[i] = g[j] => i = j
          /\ under = {} => last.records = <<>>

\* C3 witness: a successful list that returned records while the bucket also
\* held an object outside the prefix
C3_Witness ==
    /\ last.op = "list" /\ last.status = "ok"
    /\ last.records # <<>>
    /\ \E v \in Range(last.before) : ~StartsWith(v.name, Prefix)

VersionsOf(b, name) == { i \in 1..Len(b) : b[i].name = name }

\* C4 (as claimed): once one backup id was uploaded twice, list() holds exactly
\* one record for that id and it has the size of the second payload
C4_OverwriteListsOnce ==
    (last.op = "list" /\ last.status = "ok" /\ agent.rev = "B")
    => \A id \in BackupIds :
          Cardinality(VersionsOf(last.before, Filename(Prefix, id))) >= 2
          => LET rs == { i \in 1..Len(last.records) : last.records[i].backup_id = id }
             IN /\ Cardinality(rs) = 1
                /\ \A i \in rs :
                      last.records[i].size
                          = Len(Latest(last.before, Filename(Prefix, id)).data)

\* the bytes of a stream of chunks, position by position
Offset(chunks, i) ==
    LET RECURSIVE Sum(_)
        Sum(k) == IF k = 0 THEN 0 ELSE Len(chunks[k]) + Sum(k - 1)
    IN Sum(i)

IsPayloadOf(data, chunks) ==
    /\ Len(data) = Offset(chunks, Len(chunks))
    /\ \A i \in 1..Len(chunks) : \A k \in 1..Len(chunks[i]) :
          data[Offset(chunks, i - 1) + k] = chunks[i][k]

\* list() on the agent as it is now
ListNow ==
    IF agent.rev = "B" THEN async_list_backups(agent, bucket, NoFault)
    ELSE legacy_async_list_backups(agent, bucket, NoFault)

\* the bucket held no object whose key starts with the prefix
NothingUnderPrefix(b) == \A v \in Range(b) : ~StartsWith(v.name, Prefix)

\* C5: after a successful upload into a bucket that held no object whose key
\* starts with the prefix, exactly one object has such a key, the key is
\* {prefix}/{backup_id}.tar, its content is the chunks of the stream in order,
\* and list() returns exactly one record, whose size is the payload length
C5_FirstUpload ==
    (last.op = "upload" /\ last.status = "ok" /\ NothingUnderPrefix(last.before))
    => LET under == { i \in 1..Len(bucket) : StartsWith(bucket[i].name, Prefix) }
       IN /\ Cardinality(under) = 1
          /\ \A i \in under :
                /\ bucket[i].name = Prefix \o <<"/">> \o last.arg \o <<".", "t", "a", "r">>
                /\ IsPayloadOf(bucket[i].data, last.stream)
          /\ ListNow.status = "ok"
          /\ Len(ListNow.records) = 1
          /\ ListNow.records[1].size = Offset(last.stream, Len(last.stream))

\* C5 witness: such an upload of a stream of several chunks has happened
C5_Witness ==
    /\ last.op = "upload" /\ last.status = "ok"
    /\ NothingUnderPrefix(last.before)
    /\ Len(last.stream) >= 2

\* C6 (as claimed): delete of a backup id that was never uploaded raises
\* BackupNotFound and leaves the bucket as it was
C6_DeleteMissingChangesNothing ==
    (/\ last.op = "delete"
     /\ last.fault = NoFault
     /\ last.arg \in BackupIds \cup {MissingId}
     /\ last.arg \notin uploaded)
    => (last.status = "BackupNotFound" /\ bucket = last.before)

\* C7 (as claimed): no operation removes or changes an object whose key does
\* not start with the configured prefix
C7_OutsidePrefixUntouched ==
    \A v \in Range(last.before) :
        ~StartsWith(v.name, Prefix) => v \in Range(bucket)

\* the key of backup id `id` was in bucket b
Present(b, id) == VersionsOf(b, Filename(Prefix, id)) # {}

\* list() as it is now has a record describing a version stored under the key
\* of backup id `id`
Shows(id) ==
    \E i \in 1..Len(ListNow.records) : \E v \in Range(bucket) :
        v.name = Filename(Prefix, id) /\ Describes(ListNow.records[i], v)

\* C19 (as claimed): after delete(b), with backups a and b both uploaded and
\* stored, a # b, the object of a is as it was, list() shows a and it does not
\* show b
C19_DeleteRemovesOnlyThatBackup ==
    \A a, b \in BackupIds :
        (/\ last.op = "delete" /\ last.arg = b /\ last.fault = NoFault
         /\ a # b /\ {a, b} \subseteq uploaded
         /\ Present(last.before, a) /\ Present(last.before, b))
        => /\ \A v \in Range(last.before) : v.name = Filename(Prefix, a) => v \in Range(bucket)
           /\ Shows(a)
           /\ ~Shows(b)

\* the objects list() reports on bucket b, in the order of its records
Listed(b) == SelectSeq(Ls(b), LAMBDA v : StartsWith(v.name, Prefix))

\* list() on the agent and the bucket as they were before the last operation
ListBefore ==
    IF agent.rev = "B" THEN async_list_backups(agent, last.before, NoFault)
    ELSE legacy_async_list_backups(agent, last.before, NoFault)

\* C20 (as claimed): download of the backup_id of a record of list() returns
\* the content of the object that record describes, and download of an id that
\* was uploaded and is still stored returns the payload last uploaded under it
C20_IdsRoundTrip ==
    (last.op = "download" /\ last.fault = NoFault)
    => /\ \A i \in 1..Len(ListBefore.records) :
             ListBefore.records[i].backup_id = last.arg
             => last.status = "ok" /\ last.bytes = Listed(last.before)[i].data
       /\ (last.arg \in uploaded /\ Present(last.before, last.arg))
          => /\ last.status = "ok"
             /\ last.bytes = Latest(last.before, Filename(Prefix, last.arg)).data

----------------------------------------------------------------------------
(* Claims about listeners and lifecycle hooks *)

\* the listeners registered with the installed package, list by list
AllRegistered ==
    Range(listeners.init) \cup Range(listeners.platform) \cup Range(listeners.legacy)

\* C8 (as claimed): a change notification invokes the registered listeners,
\* each exactly once for each registration, in registration order; this is
\* stated here for backup_b2, whose hooks notify the list of __init__.py
C8_NotifyInvokesEachOnce ==
    (integration = "backup_b2" /\ hook.name \in {"setup", "update"})
    => invoked = listeners.init

\* C9 (as claimed): setup, update and unload of an entry each invoke every
\* listener that is registered, whichever module it was registered through
C9_EveryTransitionNotifiesAll ==
    hook.name \in {"setup", "update", "unload"}
    => \A cb \in AllRegistered : \E i \in 1..Len(invoked) : invoked[i] = cb

\* C10 (as claimed): a raising listener does not keep the listeners registered
\* after it from being invoked, and its failure stays out of the lifecycle hook
C10_ListenerFailureIsolated ==
    (integration = "backup_b2" /\ hook.name \in {"setup", "update"})
    => /\ ~hook.raised
       /\ \A i \in 1..Len(listeners.init) :
             Raises(listeners.init[i])
             => \A j \in (i + 1)..Len(listeners.init) :
                   Cardinality({ k \in 1..Len(invoked) : invoked[k] = listeners.init[j] })
                       >= 1

\* the callbacks of the registrations made through registry reg whose own
\* remove function has not been called, in registration order
Kept(reg) ==
    LET own == SelectSeq(handles, LAMBDA h : h.reg = reg /\ ~h.called)
    IN [i \in 1..Len(own) |-> own[i].cb]

\* C11 (as claimed): after any sequence of register and remove calls, each
\* listener list is exactly the registrations whose own remove function has
\* not been called, in registration order
C11_RemoveDropsOwnRegistration ==
    \A reg \in {"init", "platform", "legacy"} : listeners[reg] = Kept(reg)

----------------------------------------------------------------------------
(* Claims about discovery and configuration intake *)

\* C12 (as claimed): the agents handed to the host are exactly one per entry
\* in the loaded state, each bound to that entry's bucket and prefix, and none
\* for an entry that is not loaded or whose setup failed
C12_DiscoverLoadedEntriesOnly ==
    /\ \A e \in EntryIds :
          Cardinality({ a \in Discover : a.entry = e })
              = IF entries[e].state = "loaded" THEN 1 ELSE 0
    /\ \A a \in Discover :
          a.bucket_name = entries[a.entry].data.bucket
              /\ a.prefix = entries[a.entry].data.prefix

\* C13 (as claimed): no two entries share a bucket name, and valid credentials
\* submitted for a bucket that another entry already has end the flow with
\* the abort already_configured and create nothing
C13_EntriesUniqueByBucket ==
    /\ \A e1, e2 \in Configured(entries) :
          entries[e1].data.bucket = entries[e2].data.bucket => e1 = e2
    /\ (/\ hook.name = "config_flow"
        /\ hook.input.verdict = "ok"
        /\ \E e \in Configured(entries) \ {hook.entry} :
              entries[e].data.bucket = hook.input.bucket)
       => hook.result = "abort:already_configured" /\ hook.entry = "none"

----------------------------------------------------------------------------
(* Claims about authorization, threads and the stream *)

\* every SDK call the instance has made or is making: those of its
\* constructor, and those of the operations its tasks are in or have ended
AllCalls ==
    Range(sdk.ctor) \cup UNION { Range(tasks[t].calls) : t \in TaskIds }

\* C14: when no operation began authorizing while another one was doing so,
\* no authorize call is issued once an authorize call of the instance has
\* returned successfully
C14_AuthorizeOnce ==
    ~sdk.overlapped
    => \A c \in AllCalls : c.call = "authorize" => ~c.after_auth

\* an operation of backup_b2 that started after another one had authorized has
\* ended well without an authorize call of its own
C14_Witness ==
    /\ agent.rev = "B" /\ ~sdk.overlapped /\ sdk.started = 2
    /\ \E t \in TaskIds :
          /\ tasks[t].pc = "done" /\ tasks[t].status = "ok"
          /\ tasks[t].calls # <<>>
          /\ \A i \in 1..Len(tasks[t].calls) :
                tasks[t].calls[i].call # "authorize" /\ tasks[t].calls[i].after_auth

\* the operation of a task run alone and undisturbed on agent a and bucket b
RunAlone(a, b, n, task) ==
    IF a.rev = "B"
    THEN CASE task.op = "upload" ->
                  async_upload_backup(a, b, n, task.arg, task.stream.chunks, NoFault)
           [] task.op = "list" -> async_list_backups(a, b, NoFault)
           [] task.op = "download" -> async_download_backup(a, b, task.arg, NoFault)
           [] OTHER -> async_delete_backup(a, b, task.arg, NoFault)
    ELSE CASE task.op = "upload" ->
                  legacy_async_upload_backup(a, b, n, task.arg, task.stream.chunks, NoFault)
           [] task.op = "list" -> legacy_async_list_backups(a, b, NoFault)
           [] task.op = "download" -> legacy_async_download_backup(a, b, task.arg, NoFault)
           [] OTHER -> legacy_async_delete_backup(a, b, task.arg, NoFault)

\* the task ended as the run-alone outcome out says
SameResult(task, out) ==
    /\ task.status = out.status
    /\ task.records = out.records
    /\ task.bytes = out.bytes

\* the two tasks ended, and left the bucket, as if first had run its operation
\* on the fresh instance and second had run its own after that
AsIfOneAfterTheOther(first, second) ==
    LET o1 == RunAlone(NewAgent(agent.rev), last.before, 1, tasks[first])
        n == IF tasks[first].op = "upload" /\ o1.status = "ok" THEN 2 ELSE 1
        o2 == RunAlone(o1.agent, o1.bucket, n, tasks[second])
    IN /\ SameResult(tasks[first], o1)
       /\ SameResult(tasks[second], o2)
       /\ bucket = o2.bucket

\* the first two operations on a fresh instance, one from each task, have
\* both ended and nothing failed underneath them (no stream or SDK failure,
\* and the instance did not come with an authorize job still to run)
FirstTwoEnded ==
    /\ sdk.started = 2
    /\ agent.job = "none"
    /\ \A t \in TaskIds : tasks[t].pc = "done" /\ tasks[t].fault = NoFault

\* C15 (as claimed): however the first two operations on a fresh instance
\* interleave, both end as they would have run one after the other, the bucket
\* is as after such a run, and the instance is authorized with its bucket
\* handle resolved
C15_ConcurrentFirstUseBenign ==
    FirstTwoEnded
    => /\ AsIfOneAfterTheOther("t1", "t2") \/ AsIfOneAfterTheOther("t2", "t1")
       /\ agent.api /\ agent.bucket_obj
       /\ agent.rev = "B" => agent.authorized

\* C16 (as claimed): every call into the storage SDK, those of the
\* constructor included, runs on an executor thread and none on the event loop
C16_SdkCallsOffTheLoop ==
    \A c \in AllCalls : c.thread = "worker"

\* the put calls task has made in the operation it is in
Puts(task) == { i \in 1..Len(task.calls) : task.calls[i].call = "put" }

\* what holds of an upload at every moment: a put is made at most once and
\* only with the stream read to its end, the whole payload in the buffer; an
\* upload whose stream or put failed has ended with that failure
UploadInOrder(task) ==
    task.op = "upload"
    => /\ Cardinality(Puts(task)) <= 1
       /\ Puts(task) # {}
          => task.stream.fail_at = -1 /\ task.buf = Concat(task.stream.chunks)
       /\ task.stream.fail_at # -1 /\ task.pc \notin {"authorize", "auth_return", "drain"}
          => task.pc = "done" /\ task.status \in {"StreamError", task.fault.exc}
       /\ task.fault.call = "put" => task.pc = "done" /\ task.status = task.fault.exc

\* C17: upload makes its one put only after the stream is read to its end; a
\* step of an upload that fails, or that is no successful put, leaves every
\* object as it was, and the failure is what the caller gets
C17_PutOnlyAfterDrain ==
    [][\A t \in TaskIds :
          /\ UploadInOrder(tasks'[t])
          /\ (tasks'[t] # tasks[t] /\ tasks'[t].op = "upload")
             => IF tasks'[t].status = "ok"
                THEN bucket' = Append(bucket,
                         [id |-> FileId(nextId), name |-> Filename(Prefix, tasks[t].arg),
                          data |-> Concat(tasks[t].stream.chunks), ts |-> nextId])
                ELSE bucket' = bucket]_vars

\* an upload whose stream raised at its second chunk has ended with that
\* failure, and another whose put failed has ended with the put's failure
C17_Witness ==
    \E t \in TaskIds : \E u \in TaskIds \ {t} :
        /\ tasks[t].op = "upload" /\ tasks[t].pc = "done"
        /\ tasks[t].stream.fail_at = 2 /\ tasks[t].status = "StreamError"
        /\ tasks[u].op = "upload" /\ tasks[u].pc = "done"
        /\ tasks[u].fault.call = "put" /\ tasks[u].status = "B2ConnectionError"

\* C18 (as claimed): no bucket-resolve, ls, put, get or delete call is made
\* before an authorize call of the instance has returned successfully, so an
\* operation on an instance not yet authorized begins with authorize; an
\* operation whose authorize fails ends with that failure, having made no
\* other call
C18_StoreCallsAfterAuthorize ==
    \A t \in TaskIds :
        /\ \A i \in 1..Len(tasks[t].calls) :
              tasks[t].calls[i].call # "authorize" => tasks[t].calls[i].after_auth
        /\ tasks[t].calls # <<>>
           => tasks[t].calls[1].call = "authorize" \/ tasks[t].calls[1].after_auth
        /\ tasks[t].fault.call = "authorize"
           => /\ tasks[t].pc = "done" /\ tasks[t].status = tasks[t].fault.exc
              /\ Len(tasks[t].calls) = 1

----------------------------------------------------------------------------
(* Claims about listeners that change the registry while it is notified *)

\* how many times callback cb stands in the sequence q
Count(cb, q) == Cardinality({ k \in 1..Len(q) : q[k] = cb })

\* the step is a notification of backup_b2: _notify of a lifecycle hook, or
\* notify_backup_listeners
Notifies == integration = "backup_b2"
            /\ hook'.name \in {"setup", "update", "notify_backup_listeners"}

\* the list the notification of this step began with
ListAtBegin == IF hook'.name = "notify_backup_listeners" THEN listeners.platform
               ELSE listeners.init

\* every callback is in the list once and none of them raises, so that a
\* listener leaves the list only by removing itself in its own turn
PlainAtBegin == \A k \in 1..Len(ListAtBegin) :
                    /\ Count(ListAtBegin[k], ListAtBegin) = 1
                    /\ ~Raises(ListAtBegin[k])

\* C21: a register or unregister call made by a listener while a notification
\* runs does not disturb it: every listener in the list when the notification
\* began, none of them removed before its turn, is invoked exactly once in its
\* turn, so the invocations begin with that list; what follows it are the
\* listeners registered while the notification ran
C21_NotificationUndisturbed ==
    [][(Notifies /\ PlainAtBegin)
          => /\ Len(invoked') >= Len(ListAtBegin)
             /\ \A k \in 1..Len(ListAtBegin) : invoked'[k] = ListAtBegin[k]]_vars

====
